---- MODULE Spec2Model ----
(***************************************************************************)
(* Model of the ZOE outage-schedule parser (src/src/zoe_parser.py) and of  *)
(* the image generator's date selection, row order and cell colouring     *)
(* (src/src/gener_im_full.py).                                             *)
(*                                                                         *)
(* Representation choices, used throughout:                                *)
(*  - a Python str is a sequence of character codes (ASCII), so that the   *)
(*    string order used by sorted() and by json.dumps(sort_keys=True) is   *)
(*    the lexicographic order on code sequences and int()/str() are real   *)
(*    conversions;                                                         *)
(*  - a Python dict is a sequence of records [k |-> key, v |-> value] in   *)
(*    insertion order with pairwise distinct keys;                         *)
(*  - a float number of hours hh + mm/60.0 is kept as the integer number   *)
(*    of minutes hh*60 + mm (the comparisons of put_interval are against   *)
(*    multiples of 0.5 h, which are exact in both representations).        *)
(***************************************************************************)
EXTENDS Integers, Sequences, FiniteSets, TLC

VARIABLES
    enc_result,             \* put_interval/main: `result` of one date block
    enc_hist,               \* intervals applied to the group so far
    fact,                   \* gener_im_full.render: data["fact"]
    outcome,                \* gener_im_full.render: result of get_target_date
    old_data,               \* main: old_json["fact"]["data"]
    new_data,               \* main: results_for_all_dates handed to the diff
    verdict,                \* main: outcome of the diff
    pc,                     \* main: position of the parse cycle
    results_for_all_dates,  \* main: results_for_all_dates
    updates_for_dates,      \* main: updates_for_dates
    file,                   \* contents of OUTPUT_FILE ("none" when absent)
    ret,                    \* main: return value of the last finished cycle
    clock,                  \* datetime.now(TZ), counted in cycles
    nblocks,                \* main: date blocks consumed by the loop of this cycle
    grid                    \* gener_im_full.render: the rows and cells it draws

vars == <<enc_result, enc_hist, fact, outcome, old_data, new_data, verdict,
          pc, results_for_all_dates, updates_for_dates, file, ret, clock,
          nblocks, grid>>

encVars == <<enc_result, enc_hist>>
dateVars == <<fact, outcome>>
diffVars == <<old_data, new_data, verdict>>
gridVars == <<grid>>
cycleVars == <<pc, results_for_all_dates, updates_for_dates, file, ret, clock,
               nblocks>>

(***************************************************************************)
(* Bounds of the model.                                                    *)
(***************************************************************************)
MaxIntervals == 2

\* Clock readings "hh:mm" the interval regex can match, as [hh, mm].
EncHours == {0, 1, 2, 23, 24}
EncMinutes == {0, 30}

(***************************************************************************)
(* Strings and dicts.                                                      *)
(***************************************************************************)
Range(s) == {s[i] : i \in 1..Len(s)}

Max(S) == CHOOSE x \in S : \A y \in S : y <= x

\* str(n) for a non-negative int: its decimal digits as character codes.
RECURSIVE Str(_)
Str(n) == IF n < 10 THEN <<48 + n>> ELSE Append(Str(n \div 10), 48 + (n % 10))

\* Python's order on str: lexicographic on code points, a proper prefix first.
RECURSIVE StrLess(_, _)
StrLess(a, b) ==
    IF a = <<>> THEN b # <<>>
    ELSE IF b = <<>> THEN FALSE
    ELSE IF a[1] # b[1] THEN a[1] < b[1]
    ELSE StrLess(Tail(a), Tail(b))

DictKeys(d) == {d[i].k : i \in 1..Len(d)}

DictHas(d, k) == k \in DictKeys(d)

DictGet(d, k) == d[CHOOSE i \in 1..Len(d) : d[i].k = k].v

\* d[k] = v : an existing key keeps its position, a new key goes last.
DictSet(d, k, v) ==
    IF DictHas(d, k)
    THEN [i \in 1..Len(d) |-> IF d[i].k = k THEN [k |-> k, v |-> v] ELSE d[i]]
    ELSE Append(d, [k |-> k, v |-> v])

\* d.get(k, default)
DictGetOr(d, k, default) == IF DictHas(d, k) THEN DictGet(d, k) ELSE default

(***************************************************************************)
(* zoe_parser.py: the schedule encoder.                                    *)
(***************************************************************************)
\* "GPV" + "a.b" for the digits a, b matched by (\d)\.(\d)
GroupId(a, b) == <<71, 80, 86, 48 + a, 46, 48 + b>>

\* time_to_hour: "hh:mm" -> hh + mm/60.0, here in minutes.
time_to_hour(hhmm) == hhmm.hh * 60 + hhmm.mm

h_start(hour) == hour * 60
h_mid(hour) == h_start(hour) + 30
h_end(hour) == h_start(hour) + 60

first_off(hour, t1, t2) == t1 < h_mid(hour) /\ t2 > h_start(hour)
second_off(hour, t1, t2) == t1 < h_end(hour) /\ t2 > h_mid(hour)

\* for hour in range(1, 25): the hours that pass the `continue` of line 79
hours_written(t1, t2) ==
    {hour \in 1..24 : first_off(hour, t1, t2) \/ second_off(hour, t1, t2)}

\* lines 83-88: the state written for such an hour
hour_state(hour, t1, t2) ==
    IF first_off(hour, t1, t2) /\ second_off(hour, t1, t2) THEN "no"
    ELSE IF first_off(hour, t1, t2) THEN "first"
    ELSE "second"

\* key = str(hour + 1)
hour_key(hour) == Str(hour + 1)

\* The loop of put_interval on the group's entry.  Its iterations write
\* pairwise distinct keys, so the loop is one simultaneous update: a key the
\* entry has keeps its position, the others are appended in loop order.
put_loop(entry, t1, t2) ==
    LET written == hours_written(t1, t2)
        hour_of(k) == CHOOSE hour \in written : hour_key(hour) = k
        kept == [i \in 1..Len(entry) |->
                    IF \E hour \in written : hour_key(hour) = entry[i].k
                    THEN [k |-> entry[i].k, v |-> hour_state(hour_of(entry[i].k), t1, t2)]
                    ELSE entry[i]]
        new == {hour \in written : ~DictHas(entry, hour_key(hour))}
        nth(j) == CHOOSE hour \in new : Cardinality({x \in new : x < hour}) = j - 1
    IN kept \o [j \in 1..Cardinality(new) |->
                  [k |-> hour_key(nth(j)), v |-> hour_state(nth(j), t1, t2)]]

put_interval(result, group_id, t1, t2) ==
    DictSet(result, group_id, put_loop(DictGet(result, group_id), t1, t2))

\* {str(h): "yes" for h in range(1, 25)}
FreshEntry == [h \in 1..24 |-> [k |-> Str(h), v |-> "yes"]]

\* main, lines 213-214: create the group's entry on its first line.
new_group(result, group_id) ==
    IF DictHas(result, group_id) THEN result
    ELSE DictSet(result, group_id, FreshEntry)

\* main, lines 220-226: the intervals of one line, in order.
RECURSIVE apply_intervals(_, _, _)
apply_intervals(result, group_id, intervals) ==
    IF intervals = <<>> THEN result
    ELSE apply_intervals(
             put_interval(result, group_id,
                          time_to_hour(intervals[1][1]),
                          time_to_hour(intervals[1][2])),
             group_id, Tail(intervals))

(***************************************************************************)
(* SpecEnc: one group of one date block, interval by interval.             *)
(***************************************************************************)
EncGroup == GroupId(1, 1)

EncTimes == [hh : EncHours, mm : EncMinutes]

NoOutcome == [status |-> "none", timestamp |-> 0, day_key |-> <<>>]
DateIdle == fact = [hasToday |-> FALSE, today |-> 0, data |-> <<>>] /\ outcome = NoOutcome
DiffIdle == old_data = <<>> /\ new_data = <<>> /\ verdict = "none"
EncIdle == enc_result = <<>> /\ enc_hist = <<>>
NoGrid == [status |-> "none", rows |-> <<>>, cells |-> <<>>]
GridIdle == grid = NoGrid
CycleIdle ==
    /\ pc = "idle"
    /\ results_for_all_dates = <<>>
    /\ updates_for_dates = <<>>
    /\ file = [exists |-> FALSE, data |-> <<>>, update |-> <<>>, lastUpdated |-> 0, today |-> 0]
    /\ ret = "none"
    /\ clock = 0
    /\ nblocks = 0

EncInit == EncIdle /\ DateIdle /\ DiffIdle /\ CycleIdle /\ GridIdle

EncNewGroup ==
    /\ ~DictHas(enc_result, EncGroup)
    /\ enc_result' = new_group(enc_result, EncGroup)
    /\ UNCHANGED <<enc_hist, dateVars, diffVars, cycleVars, gridVars>>

EncApply ==
    /\ DictHas(enc_result, EncGroup)
    /\ Len(enc_hist) < MaxIntervals
    /\ \E t1_str \in EncTimes, t2_str \in EncTimes :
         /\ enc_result' = apply_intervals(enc_result, EncGroup, <<<<t1_str, t2_str>>>>)
         /\ enc_hist' = Append(enc_hist, <<time_to_hour(t1_str), time_to_hour(t2_str)>>)
    /\ UNCHANGED <<dateVars, diffVars, cycleVars, gridVars>>

EncNext == EncNewGroup \/ EncApply

SpecEnc == EncInit /\ [][EncNext]_vars

\* The group's entry and the state it holds for hour h ("absent": no key).
EncEntry == DictGet(enc_result, EncGroup)
EncState(h) == DictGetOr(EncEntry, Str(h), "absent")

(***************************************************************************)
(* The encoder as the specification describes it: hour h is the clock      *)
(* interval [h-1, h), its halves [h-1, h-0.5) and [h-0.5, h).              *)
(***************************************************************************)
OverlapsFirstHalf(h, t1, t2) == t1 < (h - 1) * 60 + 30 /\ t2 > (h - 1) * 60
OverlapsSecondHalf(h, t1, t2) == t1 < h * 60 /\ t2 > (h - 1) * 60 + 30
Overlaps(h, iv) == OverlapsFirstHalf(h, iv[1], iv[2]) \/ OverlapsSecondHalf(h, iv[1], iv[2])

StateOf(h, iv) ==
    IF OverlapsFirstHalf(h, iv[1], iv[2]) /\ OverlapsSecondHalf(h, iv[1], iv[2]) THEN "no"
    ELSE IF OverlapsFirstHalf(h, iv[1], iv[2]) THEN "first"
    ELSE IF OverlapsSecondHalf(h, iv[1], iv[2]) THEN "second"
    ELSE "yes"

\* 0 <= t1 < t2 <= 24, the encoder's stated precondition
InDay(iv) == 0 <= iv[1] /\ iv[1] < iv[2] /\ iv[2] <= 24 * 60

\* C1: after one interval within 0..24 is put into a fresh group, every hour
\* h in 1..24 holds "no", "first", "second" or "yes" according to which halves
\* of [h-1, h) the interval overlaps; a full hour [h-1, h) gives "no" for h.
C1_SingleInterval ==
    (DictHas(enc_result, EncGroup) /\ Len(enc_hist) = 1 /\ InDay(enc_hist[1]))
        => \A h \in 1..24 : EncState(h) = StateOf(h, enc_hist[1])

\* C2: one interval with b-0.5 <= start < b < end <= b+0.5 for a boundary b in
\* 1..23 gives hour b = "second", hour b+1 = "first", every other hour "yes".
C2_Boundary ==
    (DictHas(enc_result, EncGroup) /\ Len(enc_hist) = 1)
        => \A b \in 1..23 :
             (b * 60 - 30 <= enc_hist[1][1] /\ enc_hist[1][1] < b * 60
                 /\ b * 60 < enc_hist[1][2] /\ enc_hist[1][2] <= b * 60 + 30)
             => \A h \in 1..24 :
                  EncState(h) = IF h = b THEN "second"
                                ELSE IF h = b + 1 THEN "first" ELSE "yes"

\* The last interval of the list that affects hour h, 0 if none does.
LastAffecting(h) ==
    LET idx == {i \in 1..Len(enc_hist) : Overlaps(h, enc_hist[i])}
    IN IF idx = {} THEN 0 ELSE Max(idx)

\* C3: after several intervals (each within 0..24) in input order, every hour
\* holds the state computed by the last interval that affects it, and "yes"
\* if none does; so two intervals covering the two halves of one hour leave
\* it in the half state of the later one.
C3_LastWins ==
    (DictHas(enc_result, EncGroup) /\ \A i \in 1..Len(enc_hist) : InDay(enc_hist[i]))
        => \A h \in 1..24 :
             EncState(h) = IF LastAffecting(h) = 0 THEN "yes"
                           ELSE StateOf(h, enc_hist[LastAffecting(h)])

\* C4: from its creation and after every interval the parser applies, a
\* group's entry has exactly the keys "1".."24", all "yes" before the first
\* interval.
C4_HourKeys ==
    DictHas(enc_result, EncGroup)
        => /\ DictKeys(EncEntry) = {Str(h) : h \in 1..24}
           /\ Len(EncEntry) = 24
           /\ (enc_hist = <<>> => \A h \in 1..24 : EncState(h) = "yes")

\* Dates as the headers give them; int(datetime(y, m, d, tzinfo=TZ).timestamp())
\* is the epoch second of the date's midnight in Kyiv (UTC+2 on these dates).
Today == [day |-> 30, month |-> 11, year |-> 2026]
Tomorrow == [day |-> 1, month |-> 12, year |-> 2026]
OtherDay == [day |-> 29, month |-> 11, year |-> 2026]
days_from_epoch(d) ==
    LET y == IF d.month <= 2 THEN d.year - 1 ELSE d.year
        era == y \div 400
        yoe == y - era * 400
        doy == (153 * (IF d.month > 2 THEN d.month - 3 ELSE d.month + 9) + 2) \div 5 + d.day - 1
        doe == yoe * 365 + yoe \div 4 - yoe \div 100 + doy
    IN era * 146097 + doe - 719468
date_ts(d) == days_from_epoch(d) * 86400 - 7200

(***************************************************************************)
(* gener_im_full.py: get_target_date, as render calls it.                  *)
(***************************************************************************)
MaxDates == 3

IsDigit(c) == c >= 48 /\ c <= 57

\* int(s) succeeds: a non-empty run of decimal digits.  (Signs, blanks and
\* underscores, which int() also accepts, are not in the alphabet of DocKeys.)
IsInt(s) == s # <<>> /\ \A i \in 1..Len(s) : IsDigit(s[i])

\* int(s) for such a string
RECURSIVE IntVal(_)
IntVal(s) ==
    IF s = <<>> THEN 0
    ELSE 10 * IntVal(SubSeq(s, 1, Len(s) - 1)) + (s[Len(s)] - 48)

\* A sort by the string, where the code sorts by int(x).
IntKeyLess_str(a, b) == StrLess(a, b)

\* key=lambda x: int(x)
IntKeyLess(a, b) == IntVal(a) < IntVal(b)

\* sorted(): SortSeq is a stable sort, equal elements keep their order.
sorted_by_int(seq) == SortSeq(seq, IntKeyLess)
sorted_by_str(seq) == SortSeq(seq, StrLess)

\* The insertion-ordered list of keys: list(d.keys())
KeyList(d) == [i \in 1..Len(d) |-> d[i].k]

TodayKey == <<116, 111, 100, 97, 121>>

Raise(e) == [status |-> e, timestamp |-> 0, day_key |-> <<>>]
Return(ts, key) == [status |-> "ok", timestamp |-> ts, day_key |-> key]

\* int(x) where x is a str: its value, or ValueError
IntOrRaise(s, key) == IF IsInt(s) THEN Return(IntVal(s), key) ELSE Raise("ValueError")

\* The sort of lines 131-135: by int, by str when some key is no int.
sorted_dates(available_dates) ==
    IF \A i \in 1..Len(available_dates) : IsInt(available_dates[i])
    THEN sorted_by_int(available_dates)
    ELSE sorted_by_str(available_dates)

get_target_date(fact_data) ==
    LET available_dates == KeyList(fact_data)
    IN IF available_dates = <<>> THEN Raise("ValueError")
       ELSE IF Len(available_dates) = 1
       THEN LET day_key == available_dates[1]
            IN IF IsInt(day_key) THEN Return(IntVal(day_key), day_key)
               \* int(fact_data.get("today", day_key)): fact_data is fact["data"],
               \* whose only key is day_key; its value is a dict of groups.
               ELSE IF DictHas(fact_data, TodayKey) THEN Raise("TypeError")
               ELSE IntOrRaise(day_key, day_key)
       ELSE LET day_key == sorted_dates(available_dates)[Len(available_dates)]
            IN IntOrRaise(day_key, day_key)

\* render, lines 275-281
render_target(f) ==
    IF ~f.hasToday THEN Raise("MissingFields") ELSE get_target_date(f.data)

(***************************************************************************)
(* gener_im_full.py: the rows and the cells of the table.                  *)
(* A state is the string of the document ("yes", "no", "maybe", "first",   *)
(* "second", "mfirst", "msecond"; "other" stands for any other value); a   *)
(* colour is its RGB triple.  The values of a day map are dicts, as the    *)
(* parser writes them.                                                     *)
(***************************************************************************)
OUTAGE_COLOR == <<147, 170, 210>>
POSSIBLE_COLOR == <<255, 220, 115>>
AVAILABLE_COLOR == <<255, 255, 255>>

\* The same with "mfirst" coloured like "first".
first_right_sure(next_state) ==
    IF next_state = "no" THEN OUTAGE_COLOR
    ELSE IF next_state = "maybe" THEN POSSIBLE_COLOR
    ELSE IF next_state \in {"first", "mfirst"} THEN OUTAGE_COLOR
    ELSE AVAILABLE_COLOR

\* lines 205-214: the right half of a "first" cell
first_right(next_state) ==
    IF next_state = "no" THEN OUTAGE_COLOR
    ELSE IF next_state = "maybe" THEN POSSIBLE_COLOR
    ELSE IF next_state \in {"first", "mfirst"}
         THEN (IF next_state = "first" THEN OUTAGE_COLOR ELSE POSSIBLE_COLOR)
    ELSE IF next_state \in {"second", "msecond"} THEN AVAILABLE_COLOR
    ELSE AVAILABLE_COLOR

\* lines 219-229: the left half of a "second" cell
second_left(prev_state) ==
    IF prev_state = "no" THEN OUTAGE_COLOR
    ELSE IF prev_state = "maybe" THEN POSSIBLE_COLOR
    ELSE IF prev_state \in {"second", "msecond"}
         THEN (IF prev_state = "second" THEN OUTAGE_COLOR ELSE POSSIBLE_COLOR)
    ELSE IF prev_state \in {"first", "mfirst"} THEN AVAILABLE_COLOR
    ELSE AVAILABLE_COLOR

\* The same with the second-half states coloured as for a "first" cell.
mfirst_right_like_first(next_state) ==
    IF next_state = "no" THEN OUTAGE_COLOR
    ELSE IF next_state = "maybe" THEN POSSIBLE_COLOR
    ELSE IF next_state \in {"first", "mfirst"} THEN OUTAGE_COLOR
    ELSE AVAILABLE_COLOR

\* lines 234-243: the right half of an "mfirst" cell
mfirst_right(next_state) ==
    IF next_state = "no" THEN OUTAGE_COLOR
    ELSE IF next_state = "maybe" THEN POSSIBLE_COLOR
    ELSE IF next_state \in {"first", "mfirst"} THEN OUTAGE_COLOR
    ELSE IF next_state \in {"second", "msecond"} THEN OUTAGE_COLOR
    ELSE AVAILABLE_COLOR

\* lines 248-258: the left half of an "msecond" cell
msecond_left(prev_state) ==
    IF prev_state = "no" THEN OUTAGE_COLOR
    ELSE IF prev_state = "maybe" THEN POSSIBLE_COLOR
    ELSE IF prev_state \in {"second", "msecond"} THEN OUTAGE_COLOR
    ELSE IF prev_state \in {"first", "mfirst"} THEN OUTAGE_COLOR
    ELSE AVAILABLE_COLOR

\* lines 195-260: left_color and right_color of a cell
draw_split_cell(state, prev_state, next_state) ==
    IF state = "no" THEN [left |-> OUTAGE_COLOR, right |-> OUTAGE_COLOR]
    ELSE IF state = "maybe" THEN [left |-> POSSIBLE_COLOR, right |-> POSSIBLE_COLOR]
    ELSE IF state = "yes" THEN [left |-> AVAILABLE_COLOR, right |-> AVAILABLE_COLOR]
    ELSE IF state = "first"
         THEN [left |-> OUTAGE_COLOR, right |-> first_right(next_state)]
    ELSE IF state = "second"
         THEN [left |-> second_left(prev_state), right |-> OUTAGE_COLOR]
    ELSE IF state = "mfirst"
         THEN [left |-> POSSIBLE_COLOR, right |-> mfirst_right(next_state)]
    ELSE IF state = "msecond"
         THEN [left |-> msecond_left(prev_state), right |-> POSSIBLE_COLOR]
    ELSE [left |-> AVAILABLE_COLOR, right |-> AVAILABLE_COLOR]

\* The same without the wrap to hour 24.
prev_h_key_nowrap(h) == Str(h)

\* line 378: str(h) if h > 0 else "24"
prev_h_key(h) == IF h > 0 THEN Str(h) ELSE <<50, 52>>

\* line 379: str(h + 2) if h < 23 else "1"
next_h_key(h) == IF h < 23 THEN Str(h + 2) ELSE <<49>>

\* lines 374-387: the cell of column h (0..23) of a row, with what is passed
\* to draw_split_cell and the two colours it fills
draw_cell(gp_hours, h) ==
    LET state == DictGetOr(gp_hours, Str(h + 1), "yes")
        prev_state == DictGetOr(gp_hours, prev_h_key(h), "yes")
        next_state == DictGetOr(gp_hours, next_h_key(h), "yes")
        colors == draw_split_cell(state, prev_state, next_state)
    IN [state |-> state, prev_state |-> prev_state, next_state |-> next_state,
        left |-> colors.left, right |-> colors.right]

\* lines 372-387: the cells of a group's row, for h in range(24)
draw_row(day_map, group) ==
    [c \in 1..24 |-> draw_cell(DictGetOr(day_map, group, <<>>), c - 1)]

\* "GPV" in s
HasGPV(s) == \E i \in 1..(Len(s) - 2) : s[i] = 71 /\ s[i + 1] = 80 /\ s[i + 2] = 86

\* re.search(r"(\d+)", s).group(1): the first run of digits, <<>> if no match
first_digits(s) ==
    LET ds == {i \in 1..Len(s) : IsDigit(s[i])}
    IN IF ds = {} THEN <<>>
       ELSE LET a == CHOOSE i \in ds : \A j \in ds : i <= j
                b == CHOOSE i \in a..Len(s) :
                        /\ \A j \in a..i : IsDigit(s[j])
                        /\ (i = Len(s) \/ ~IsDigit(s[i + 1]))
            IN SubSeq(s, a, b)

\* lines 285-293: (0, int) or (0, s) for a name with "GPV", (1, s) otherwise
sort_key(s) ==
    IF HasGPV(s)
    THEN IF first_digits(s) # <<>>
         THEN [cls |-> 0, isint |-> TRUE, n |-> IntVal(first_digits(s)), s |-> <<>>]
         ELSE [cls |-> 0, isint |-> FALSE, n |-> 0, s |-> s]
    ELSE [cls |-> 1, isint |-> FALSE, n |-> 0, s |-> s]

\* The order of the key tuples (where it is defined)
sort_key_less(a, b) ==
    LET ka == sort_key(a)
        kb == sort_key(b)
    IN \/ ka.cls < kb.cls
       \/ /\ ka.cls = kb.cls
          /\ IF ka.isint THEN ka.n < kb.n ELSE StrLess(ka.s, kb.s)

\* sorted() compares an int with a str: two keys (0, int) and (0, s)
sort_raises(groups) ==
    \E i, j \in 1..Len(groups) :
        /\ sort_key(groups[i]).cls = 0 /\ sort_key(groups[j]).cls = 0
        /\ sort_key(groups[i]).isint /\ ~sort_key(groups[j]).isint

\* line 294: sorted(list(day_map.keys()), key=sort_key), a stable sort
sorted_groups(groups) == SortSeq(groups, sort_key_less)

\* render, lines 282-387, after the date was selected
render_grid(f, target) ==
    IF target.status # "ok" THEN [status |-> target.status, rows |-> <<>>, cells |-> <<>>]
    ELSE LET day_map == DictGetOr(f.data, target.day_key, <<>>)
             groups == KeyList(day_map)
         IN IF sort_raises(groups)
            THEN [status |-> "TypeError", rows |-> <<>>, cells |-> <<>>]
            ELSE LET rows == sorted_groups(groups)
                 IN [status |-> "ok", rows |-> rows,
                     cells |-> [r \in 1..Len(rows) |-> draw_row(day_map, rows[r])]]

(***************************************************************************)
(* SpecDate: render on a document whose fact.data has up to MaxDates keys. *)
(***************************************************************************)
\* "50", "050", "100", "200", "a", "b", "1.5", "today"
DocKeys ==
    { <<53, 48>>, <<48, 53, 48>>, <<49, 48, 48>>, <<50, 48, 48>>,
      <<97>>, <<98>>, <<49, 46, 53>>, TodayKey }

\* fact.today of the documents
DocToday == date_ts(Today)

KeySeqs(n) == {s \in [1..n -> DocKeys] : \A i, j \in 1..n : i # j => s[i] # s[j]}

DocData == UNION {{[i \in 1..n |-> [k |-> s[i], v |-> <<>>]] : s \in KeySeqs(n)} : n \in 0..MaxDates}

DateInit ==
    /\ EncIdle /\ DiffIdle /\ CycleIdle /\ GridIdle
    /\ outcome = NoOutcome
    /\ \E d \in DocData, t \in BOOLEAN :
         fact = [hasToday |-> t, today |-> IF t THEN DocToday ELSE 0, data |-> d]

Render ==
    /\ outcome = NoOutcome
    /\ outcome' = render_target(fact)
    /\ grid' = render_grid(fact, render_target(fact))
    /\ UNCHANGED <<fact, encVars, diffVars, cycleVars>>

DateNext == Render

SpecDate == DateInit /\ [][DateNext]_vars

FactKeys == DictKeys(fact.data)
Selected == outcome # NoOutcome /\ fact.hasToday

\* C5: with two or more keys that all parse as integers, the selected key is
\* one whose integer value is the largest of all keys (whatever the string
\* order or the insertion order), and the timestamp is that integer.
C5_NumericMax ==
    (Selected /\ Len(fact.data) >= 2 /\ \A k \in FactKeys : IsInt(k))
        => /\ outcome.status = "ok"
           /\ outcome.day_key \in FactKeys
           /\ \A k \in FactKeys : IntVal(k) <= IntVal(outcome.day_key)
           /\ outcome.timestamp = IntVal(outcome.day_key)

\* C5 witness: "50" is the last key inserted and the last in string order,
\* and "200" is selected.
C5_Witness ==
    /\ Selected /\ Len(fact.data) = 3 /\ \A k \in FactKeys : IsInt(k)
    /\ fact.data[3].k = <<53, 48>>
    /\ outcome = Return(200, <<50, 48, 48>>)

\* C6: with two or more keys of which one does not parse as an integer, the
\* selection returns, without raising, the key that is last in string order.
C6_StringFallback ==
    (Selected /\ Len(fact.data) >= 2 /\ \E k \in FactKeys : ~IsInt(k))
        => /\ outcome.status = "ok"
           /\ outcome.day_key \in FactKeys
           /\ \A k \in FactKeys : k = outcome.day_key \/ StrLess(k, outcome.day_key)

\* C7: with exactly one key that key is selected; its integer value is the
\* timestamp, and when it is no integer the document's fact.today is.
C7_SingleKey ==
    (Selected /\ Len(fact.data) = 1)
        => /\ outcome.status = "ok"
           /\ outcome.day_key = fact.data[1].k
           /\ outcome.timestamp = IF IsInt(fact.data[1].k) THEN IntVal(fact.data[1].k)
                                  ELSE fact.today

(***************************************************************************)
(* zoe_parser.py main, lines 238-246: the diff against the persisted data. *)
(***************************************************************************)
MaxDiffEntries == 2

KeyLess(x, y) == StrLess(x.k, y.k)

\* json.dumps without sort_keys: the keys of a dict in insertion order.
dump_keys_unsorted(d) == d

\* json.dumps(..., sort_keys=True): the keys of one dict in sorted order.
dump_keys(d) == SortSeq(d, KeyLess)

\* The serialisation of an hourly entry, of the groups of a date, of the
\* dates: the text json.dumps writes is determined by, and determines, this
\* nesting of sorted key/value lists.
dumps_entry(entry) == dump_keys(entry)
dumps_result(result) ==
    dump_keys([i \in 1..Len(result) |-> [k |-> result[i].k, v |-> dumps_entry(result[i].v)]])
json_dumps(data) ==
    dump_keys([i \in 1..Len(data) |-> [k |-> data[i].k, v |-> dumps_result(data[i].v)]])

\* line 244
data_unchanged(old, new) == json_dumps(old) = json_dumps(new)

\* One interval of a schedule line, "01:00 - 02:00".
OneToTwo == <<[hh |-> 1, mm |-> 0], [hh |-> 2, mm |-> 0]>>

EntryAfter(intervals) ==
    DictGet(apply_intervals(new_group(<<>>, EncGroup), EncGroup, intervals), EncGroup)

Reverse(s) == [i \in 1..Len(s) |-> s[Len(s) + 1 - i]]

(***************************************************************************)
(* SpecDiff: the diff on two data maps.                                    *)
(***************************************************************************)
DiffDates == {Str(date_ts(Today)), Str(date_ts(Tomorrow))}
DiffGroups == {GroupId(1, 1), GroupId(1, 2)}
\* all available; the same with its keys in another order; hour 2 off
DiffEntries == {FreshEntry, Reverse(FreshEntry), EntryAfter(<<OneToTwo>>)}

DictsOver(n, keys, values) ==
    {[i \in 1..n |-> [k |-> ks[i], v |-> vs[i]]] :
        ks \in {s \in [1..n -> keys] : \A i, j \in 1..n : i # j => s[i] # s[j]},
        vs \in [1..n -> values]}

DiffResults(n) == DictsOver(n, DiffGroups, DiffEntries)

DiffData ==
    {<<>>}
    \cup UNION {DictsOver(1, DiffDates, DiffResults(n)) : n \in 1..MaxDiffEntries}
    \cup UNION {
           {<<[k |-> d[1], v |-> r1], [k |-> d[2], v |-> r2]>> :
               d \in {s \in [1..2 -> DiffDates] : s[1] # s[2]},
               r1 \in DiffResults(n[1]), r2 \in DiffResults(n[2])} :
           n \in {m \in (1..MaxDiffEntries) \X (1..MaxDiffEntries) :
                     m[1] + m[2] <= MaxDiffEntries}}

DiffInit ==
    /\ EncIdle /\ DateIdle /\ CycleIdle /\ GridIdle
    /\ verdict = "none"
    /\ old_data \in DiffData
    /\ new_data \in DiffData

Diff ==
    /\ verdict = "none"
    /\ verdict' = IF data_unchanged(old_data, new_data) THEN "unchanged" ELSE "changed"
    /\ UNCHANGED <<old_data, new_data, encVars, dateVars, cycleVars, gridVars>>

DiffNext == Diff

SpecDiff == DiffInit /\ [][DiffNext]_vars

\* A data map as a mathematical map date -> group -> hour -> state: the set
\* of its (key, value) pairs, the values taken the same way.
EntryMap(entry) == Range(entry)
ResultMap(result) == {[k |-> result[i].k, v |-> EntryMap(result[i].v)] : i \in 1..Len(result)}
DataMap(data) == {[k |-> data[i].k, v |-> ResultMap(data[i].v)] : i \in 1..Len(data)}

\* C8: the diff reports "unchanged" exactly when the two data maps are equal
\* as maps date -> group -> hour -> state, whatever the insertion order of
\* their date, group and hour keys.
C8_StructuralEquality ==
    verdict # "none" => (verdict = "unchanged" <=> DataMap(old_data) = DataMap(new_data))

\* C8 witness: "unchanged" for two maps that differ in the insertion order
\* of their dates, of their groups or of their hours.
C8_Witness ==
    /\ verdict = "unchanged"
    /\ old_data # new_data
    /\ Len(old_data) >= 1

\* C8, the other direction seen: "changed" for maps over the same dates and
\* groups that differ in the state of an hour only.
C8_ChangedSeen ==
    /\ verdict = "changed"
    /\ DictKeys(old_data) = DictKeys(new_data)
    /\ \A d \in DictKeys(old_data) :
         DictKeys(DictGet(old_data, d)) = DictKeys(DictGet(new_data, d))

(***************************************************************************)
(* zoe_parser.py main: one parse cycle, block by block.                    *)
(***************************************************************************)
MaxCycles == 2
MaxBlocks == 2

\* str.zfill(2) of a number below 100, and the fixed-width fields of a stamp
Two(n) == <<48 + (n \div 10), 48 + (n % 10)>>
time_str(t) == Two(t.hh) \o <<58>> \o Two(t.mm)
date_str(d) == Two(d.day) \o <<46>> \o Two(d.month) \o <<46>> \o Str(d.year)
stamp(t, d) == time_str(t) \o <<32>> \o date_str(d)

today_str == date_str(Today)
tomorrow_str == date_str(Tomorrow)

\* datetime.now(TZ) of the cycle: a later time of day in each cycle.
now_time(clk) == [hh |-> 10 + clk, mm |-> 0]

\* lines 157-186: the update stamp of a block
block_update(updates, b, clk) ==
    IF b.update.found
    THEN LET update_date_str == date_str(b.update.date)
             update_time == time_str(b.update.time)
         IN IF update_date_str \in {today_str, tomorrow_str}
            THEN IF ~DictHas(updates, update_date_str)
                 THEN DictSet(updates, update_date_str, stamp(b.update.time, b.update.date))
                 ELSE LET existing_time == SubSeq(DictGet(updates, update_date_str), 1, 5)
                      IN IF StrLess(existing_time, update_time)
                         THEN DictSet(updates, update_date_str,
                                      stamp(b.update.time, b.update.date))
                         ELSE updates
            ELSE updates
    ELSE IF ~DictHas(updates, date_str(b.date))
         THEN DictSet(updates, date_str(b.date), stamp(now_time(clk), Today))
         ELSE updates

\* lines 197-229: one line of a block
block_line(result, line) ==
    IF line.kind # "sched" THEN result
    ELSE apply_intervals(new_group(result, GroupId(line.a, line.b)),
                         GroupId(line.a, line.b), line.intervals)

RECURSIVE block_lines(_, _)
block_lines(result, lines) ==
    IF lines = <<>> THEN result
    ELSE block_lines(block_line(result, lines[1]), Tail(lines))

\* lines 128-232: one iteration of the loop over the date blocks
process_block(results, updates, b, clk) ==
    IF date_str(b.date) \notin {today_str, tomorrow_str}
    THEN [results |-> results, updates |-> updates]
    ELSE LET result == block_lines(<<>>, b.lines)
         IN [results |-> IF result # <<>>
                         THEN DictSet(results, Str(date_ts(b.date)), result)
                         ELSE results,
             updates |-> block_update(updates, b, clk)]

\* max(updates_for_dates.values()): the greatest stamp in string order
max_stamp(updates) ==
    LET vals == {updates[i].v : i \in 1..Len(updates)}
    IN CHOOSE s \in vals : \A t \in vals : t = s \/ StrLess(t, s)

\* datetime.strptime(s, "%H:%M %d.%m.%Y") accepts s
stamp_valid(s) == IntVal(SubSeq(s, 1, 2)) <= 23 /\ IntVal(SubSeq(s, 4, 5)) <= 59

\* .strftime("%d.%m.%Y %H:%M")
stamp_format(s) == SubSeq(s, 7, 16) \o <<32>> \o SubSeq(s, 1, 5)

NoFile == [exists |-> FALSE, data |-> <<>>, update |-> <<>>, lastUpdated |-> 0, today |-> 0]

\* lines 248-289: choose the update label and write the document
write_json(results, updates, f, clk) ==
    IF updates # <<>> /\ ~stamp_valid(max_stamp(updates))
    THEN [ret |-> "ValueError", file |-> f]
    ELSE [ret |-> "True",
          file |-> [exists |-> TRUE,
                    data |-> results,
                    update |-> IF updates # <<>> THEN stamp_format(max_stamp(updates))
                               ELSE stamp_format(stamp(now_time(clk), Today)),
                    lastUpdated |-> clk,
                    today |-> date_ts(Today)]]

\* The same without the check of line 234.
no_schedules_ignored(results) == FALSE

\* line 234: if not results_for_all_dates
no_schedules(results) == results = <<>>

\* lines 234-289: after the loop
main_finish(results, updates, f, clk) ==
    IF no_schedules(results) THEN [ret |-> "False", file |-> f]
    ELSE IF f.exists /\ data_unchanged(f.data, results) THEN [ret |-> "False", file |-> f]
    ELSE write_json(results, updates, f, clk)

(***************************************************************************)
(* Spec: parse cycles against one persisted document.                      *)
(***************************************************************************)
BlockDates == {Today, Tomorrow, OtherDay}
UpdTimes == {[hh |-> 9, mm |-> 10], [hh |-> 18, mm |-> 31], [hh |-> 24, mm |-> 0]}
NoUpdate == [found |-> FALSE, date |-> Today, time |-> [hh |-> 0, mm |-> 0]]
BlockUpdates ==
    {NoUpdate, [found |-> TRUE, date |-> OtherDay, time |-> [hh |-> 9, mm |-> 10]]}
    \cup [found : {TRUE}, date : {Today, Tomorrow}, time : UpdTimes]

\* "1.1: не вимикається" and "1.1: <intervals>" (other lines are skipped)
OffLine == [kind |-> "off", a |-> 1, b |-> 1, intervals |-> <<>>]
SchedLine(intervals) == [kind |-> "sched", a |-> 1, b |-> 1, intervals |-> intervals]

\* The schedule lines of a block: none; a group that is not switched off; a
\* group without a readable interval; a group with an interval.
BlockLines ==
    {<<>>, <<OffLine>>, <<SchedLine(<<>>)>>, <<OffLine, SchedLine(<<OneToTwo>>)>>}

\* A block of another date is skipped whole, whatever it holds.
Blocks ==
    [date : {Today, Tomorrow}, update : BlockUpdates, lines : BlockLines]
    \cup {[date |-> OtherDay, update |-> NoUpdate, lines |-> <<SchedLine(<<OneToTwo>>)>>]}

Init ==
    /\ EncIdle /\ DateIdle /\ DiffIdle /\ GridIdle
    /\ pc = "idle"
    /\ results_for_all_dates = <<>>
    /\ updates_for_dates = <<>>
    /\ file = NoFile
    /\ ret = "none"
    /\ clock = 0
    /\ nblocks = 0

\* lines 109-125: a cycle starts on the fetched page
StartCycle ==
    /\ pc \in {"idle", "done"}
    /\ clock < MaxCycles
    /\ pc' = "blocks"
    /\ clock' = clock + 1
    /\ results_for_all_dates' = <<>>
    /\ updates_for_dates' = <<>>
    /\ nblocks' = 0
    /\ ret' = "none"
    /\ UNCHANGED <<file, encVars, dateVars, diffVars, gridVars>>

ProcessBlock ==
    /\ pc = "blocks"
    /\ nblocks < MaxBlocks
    /\ \E b \in Blocks :
         LET st == process_block(results_for_all_dates, updates_for_dates, b, clock)
         IN /\ results_for_all_dates' = st.results
            /\ updates_for_dates' = st.updates
    /\ nblocks' = nblocks + 1
    /\ UNCHANGED <<pc, file, ret, clock, encVars, dateVars, diffVars, gridVars>>

Finish ==
    /\ pc = "blocks"
    /\ pc' = "done"
    /\ LET out == main_finish(results_for_all_dates, updates_for_dates, file, clock)
       IN /\ ret' = out.ret
          /\ file' = out.file
    /\ nblocks' = 0
    /\ UNCHANGED <<results_for_all_dates, updates_for_dates, clock,
                   encVars, dateVars, diffVars, gridVars>>

Next == StartCycle \/ ProcessBlock \/ Finish

Spec == Init /\ [][Next]_vars

\* The step that ends a cycle, and whether its encoded data calls for a write.
CycleEnds == pc = "blocks" /\ pc' = "done"
MustWrite ==
    /\ results_for_all_dates # <<>>
    /\ ~file.exists \/ DataMap(file.data) # DataMap(results_for_all_dates)

\* C9: a cycle overwrites the persisted document exactly when its encoded
\* data is non-empty and there is no document or its data differs; otherwise
\* the document stays as it is and the cycle returns False; after a write the
\* document's data is exactly the data encoded in the cycle.
C9_WriteIffChanged ==
    [][CycleEnds =>
         /\ (file' # file <=> MustWrite)
         /\ (~MustWrite => ret' = "False")
         /\ (file' # file => ret' = "True" /\ file'.data = results_for_all_dates)]_vars

\* C10: a cycle that encoded no group for any accepted date returns False
\* and leaves the persisted document as it is.
C10_NoSchedules ==
    [][(CycleEnds /\ results_for_all_dates = <<>>) => (ret' = "False" /\ file' = file)]_vars

\* C10 witness: a cycle that accepted a date block (it recorded an update
\* stamp), encoded nothing and returned False, a document being persisted.
C10_Witness ==
    /\ pc = "done"
    /\ results_for_all_dates = <<>>
    /\ updates_for_dates # <<>>
    /\ ret = "False"
    /\ file.exists

\* A stamp "HH:MM dd.mm.yyyy" read as a moment: <<year, month, day, hour, minute>>
MomentOf(s) ==
    <<IntVal(SubSeq(s, 13, 16)), IntVal(SubSeq(s, 10, 11)), IntVal(SubSeq(s, 7, 8)),
      IntVal(SubSeq(s, 1, 2)), IntVal(SubSeq(s, 4, 5))>>
MinuteOfDay(s) == IntVal(SubSeq(s, 1, 2)) * 60 + IntVal(SubSeq(s, 4, 5))
Earlier(a, b) ==
    \E i \in 1..5 : MomentOf(a)[i] < MomentOf(b)[i]
                    /\ \A j \in 1..(i - 1) : MomentOf(a)[j] = MomentOf(b)[j]
Stamps(updates) == {updates[i].v : i \in 1..Len(updates)}
Newest(updates) ==
    CHOOSE s \in Stamps(updates) : \A t \in Stamps(updates) : t = s \/ Earlier(t, s)

\* C16: a cycle that collected stamps for more than one date and writes the
\* document labels it with the chronologically newest stamp (latest date,
\* then latest time); and while the blocks are read, the stamp stored for a
\* date is replaced only by one with a strictly later time of day.
C16_NewestUpdate ==
    [][/\ (CycleEnds /\ file' # file /\ Len(updates_for_dates) > 1)
            => file'.update = stamp_format(Newest(updates_for_dates))
       /\ (pc = "blocks" /\ pc' = "blocks")
            => \A k \in DictKeys(updates_for_dates) :
                 /\ DictHas(updates_for_dates', k)
                 /\ DictGet(updates_for_dates', k) # DictGet(updates_for_dates, k)
                      => MinuteOfDay(DictGet(updates_for_dates, k))
                           < MinuteOfDay(DictGet(updates_for_dates', k))]_vars

(***************************************************************************)
(* SpecGrid: render on documents with one date, whose group GPV1.1 holds   *)
(* any state, or none, for the hours 1, 2, 3 and 24.                       *)
(***************************************************************************)
HourStates == {"yes", "no", "maybe", "first", "second", "mfirst", "msecond", "other"}

\* "1", "2", "3", "24"
GridKeys == <<<<49>>, <<50>>, <<51>>, <<50, 52>>>>

GridHours ==
    LET Present(e) == e.v # "absent"
    IN {SelectSeq([i \in 1..Len(GridKeys) |-> [k |-> GridKeys[i], v |-> f[i]]], Present) :
          f \in [1..Len(GridKeys) -> HourStates \cup {"absent"}]}

\* The hours of a second group, drawn above or below the first
OtherRow == <<[k |-> <<50, 52>>, v |-> "no"], [k |-> <<49>>, v |-> "second"]>>

GridMaps ==
    {<<[k |-> GroupId(1, 1), v |-> hs]>> : hs \in GridHours}
    \cup {<<[k |-> GroupId(2, 1), v |-> OtherRow], [k |-> GroupId(1, 1), v |-> hs]>> :
            hs \in GridHours}

\* The document the parser writes for one date
DocOf(day_map) ==
    [hasToday |-> TRUE, today |-> DocToday,
     data |-> <<[k |-> Str(date_ts(Today)), v |-> day_map]>>]

GridInit ==
    /\ EncIdle /\ DiffIdle /\ CycleIdle /\ GridIdle
    /\ outcome = NoOutcome
    /\ \E m \in GridMaps : fact = DocOf(m)

GridNext == Render

SpecGrid == GridInit /\ [][GridNext]_vars

\* The cells drawn, of all rows
Cells == {grid.cells[r][c] : r \in 1..Len(grid.cells), c \in 1..24}

\* The other half of a definite half-state, by the state of the adjacent hour
NextOfFirst ==
    [s \in HourStates |->
        CASE s = "no" -> OUTAGE_COLOR
          [] s = "maybe" -> POSSIBLE_COLOR
          [] s = "first" -> OUTAGE_COLOR
          [] s = "mfirst" -> POSSIBLE_COLOR
          [] OTHER -> AVAILABLE_COLOR]
PrevOfSecond ==
    [s \in HourStates |->
        CASE s = "no" -> OUTAGE_COLOR
          [] s = "maybe" -> POSSIBLE_COLOR
          [] s = "second" -> OUTAGE_COLOR
          [] s = "msecond" -> POSSIBLE_COLOR
          [] OTHER -> AVAILABLE_COLOR]

OtherOfPossible ==
    [s \in HourStates |->
        CASE s = "no" -> OUTAGE_COLOR
          [] s = "maybe" -> POSSIBLE_COLOR
          [] s \in {"first", "second", "mfirst", "msecond"} -> OUTAGE_COLOR
          [] OTHER -> AVAILABLE_COLOR]

\* The colour of a cell that is not a half-state
SolidColor ==
    [s \in HourStates \ {"first", "second", "mfirst", "msecond"} |->
        CASE s = "no" -> OUTAGE_COLOR
          [] s = "maybe" -> POSSIBLE_COLOR
          [] OTHER -> AVAILABLE_COLOR]

HourOf(doc, group, h) ==
    LET gp == DictGet(doc.data[1].v, group)
    IN IF \E i \in 1..Len(gp) : gp[i].k = Str(h)
       THEN gp[CHOOSE i \in 1..Len(gp) : gp[i].k = Str(h)].v
       ELSE "yes"

\* C14: a render that draws the table leaves the document as it was, and for
\* every row and every hour h in 1..24 it passes to the colouring rule the
\* state of hour h, the state of hour h-1 (hour 24 for h = 1) and the state
\* of hour h+1 (hour 1 for h = 24) of that group, "yes" for an absent key.
C14_Neighbours ==
    [][(grid.status = "none" /\ grid'.status = "ok") =>
         /\ fact' = fact
         /\ Len(grid'.cells) = Len(grid'.rows)
         /\ \A r \in 1..Len(grid'.rows) : \A h \in 1..24 :
              LET cell == grid'.cells[r][h]
                  group == grid'.rows[r]
              IN /\ cell.state = HourOf(fact, group, h)
                 /\ cell.prev_state = HourOf(fact, group, IF h = 1 THEN 24 ELSE h - 1)
                 /\ cell.next_state = HourOf(fact, group, IF h = 24 THEN 1 ELSE h + 1)]_vars

\* C14 witness: two rows were drawn; in one the cell of hour 1 got the state
\* of hour 24 as previous state, the cell of hour 24 the state of hour 1 as
\* next state, and the cell of hour 3 "yes" for the absent hour 4.
C14_Witness ==
    /\ grid.status = "ok" /\ Len(grid.rows) = 2
    /\ \E r \in 1..2 :
         /\ grid.cells[r][1].state = "first" /\ grid.cells[r][1].prev_state = "mfirst"
         /\ grid.cells[r][24].state = "mfirst" /\ grid.cells[r][24].next_state = "first"
         /\ grid.cells[r][3].state = "no" /\ grid.cells[r][3].next_state = "yes"

(***************************************************************************)
(* SpecRows: render on documents with one date and up to MaxGroups groups, *)
(* in any order.                                                           *)
(***************************************************************************)
MaxGroups == 3

\* "GPV1.1", "GPV1.2", "GPV2.1", "GPV10.1", "GPV", "B"
RowGroups ==
    { GroupId(1, 1), GroupId(1, 2), GroupId(2, 1), <<71, 80, 86, 49, 48, 46, 49>>,
      <<71, 80, 86>>, <<66>> }

GroupSeqs(n) == {s \in [1..n -> RowGroups] : \A i, j \in 1..n : i # j => s[i] # s[j]}

RowMaps ==
    UNION {{[i \in 1..n |-> [k |-> s[i], v |-> OtherRow]] : s \in GroupSeqs(n)} :
             n \in 0..MaxGroups}

RowsInit ==
    /\ EncIdle /\ DiffIdle /\ CycleIdle /\ GridIdle
    /\ outcome = NoOutcome
    /\ \E m \in RowMaps : fact = DocOf(m)

RowsNext == Render

SpecRows == RowsInit /\ [][RowsNext]_vars

\* The groups of the selected date, and "GPV<major>.<minor>" read as numbers
DayGroups == DictKeys(fact.data[1].v)
DotOf(g) == CHOOSE d \in 1..Len(g) : g[d] = 46
IsNumericGroup(g) ==
    /\ Len(g) > 3 /\ SubSeq(g, 1, 3) = <<71, 80, 86>>
    /\ \E d \in 5..(Len(g) - 1) :
         g[d] = 46 /\ IsInt(SubSeq(g, 4, d - 1)) /\ IsInt(SubSeq(g, d + 1, Len(g)))
Major(g) == IntVal(SubSeq(g, 4, DotOf(g) - 1))
Minor(g) == IntVal(SubSeq(g, DotOf(g) + 1, Len(g)))

\* Row a belongs above row b
RowBefore(a, b) ==
    IF IsNumericGroup(a) /\ IsNumericGroup(b)
    THEN Major(a) < Major(b) \/ (Major(a) = Major(b) /\ Minor(a) < Minor(b))
    ELSE IF IsNumericGroup(a) THEN TRUE
    ELSE IF IsNumericGroup(b) THEN FALSE
    ELSE StrLess(a, b)

\* C13: whatever the order of the groups in the document, rendering succeeds
\* and the rows are the groups of the selected date in ascending order of
\* (major, minor), followed by the groups that are not numeric in name order.
C13_RowOrder ==
    outcome # NoOutcome =>
        /\ grid.status = "ok"
        /\ Range(grid.rows) = DayGroups /\ Len(grid.rows) = Len(fact.data[1].v)
        /\ \A i, j \in 1..Len(grid.rows) : i < j => RowBefore(grid.rows[i], grid.rows[j])

(***************************************************************************)
(* SpecE2E: the parser encodes the lines of one group, writes the document *)
(* and the image generator renders it.                                     *)
(***************************************************************************)
E2EEncode == ~fact.hasToday /\ EncNext

\* main, lines 231-232 and 259-289: the block's result goes into the document
E2EWrite ==
    /\ ~fact.hasToday
    /\ enc_result # <<>>
    /\ fact' = DocOf(enc_result)
    /\ UNCHANGED <<outcome, encVars, diffVars, cycleVars, gridVars>>

E2ERender == fact.hasToday /\ Render

E2ENext == E2EEncode \/ E2EWrite \/ E2ERender

SpecE2E == EncInit /\ [][E2ENext]_vars

\* Some input interval covers the first (second) half of hour h.
FirstHalfCovered(h) ==
    \E i \in 1..Len(enc_hist) : OverlapsFirstHalf(h, enc_hist[i][1], enc_hist[i][2])
SecondHalfCovered(h) ==
    \E i \in 1..Len(enc_hist) : OverlapsSecondHalf(h, enc_hist[i][1], enc_hist[i][2])

\* C15: when the rendered row was encoded from intervals with half-hour
\* endpoints within 0..24, every half of a cell coloured unavailable is
\* covered by one of the intervals, and a "second" hour followed by a "first"
\* hour has its right half and the next left half both unavailable.
C15_NoPhantomOutage ==
    (grid.status = "ok" /\ Len(grid.rows) = 1 /\ \A i \in 1..Len(enc_hist) : InDay(enc_hist[i]))
        => /\ \A h \in 1..24 :
                /\ grid.cells[1][h].left = OUTAGE_COLOR => FirstHalfCovered(h)
                /\ grid.cells[1][h].right = OUTAGE_COLOR => SecondHalfCovered(h)
           /\ \A h \in 1..23 :
                (grid.cells[1][h].state = "second" /\ grid.cells[1][h + 1].state = "first")
                    => /\ grid.cells[1][h].right = OUTAGE_COLOR
                       /\ grid.cells[1][h + 1].left = OUTAGE_COLOR
====
